---- MODULE Spec2Model ----
(***************************************************************************)
(* diglet.py: a sequential DNS batch querier.  main() loads a domain list, *)
(* a resolver list and a comma-separated record-type list, builds the      *)
(* generator resolve_records and, unless --quiet, drains it through        *)
(* print_results.  For every domain the generator walks a fixed chain of   *)
(* "if <TYPE> in record_types" statements, each of which calls fetch_dns,  *)
(* which invokes resolver.resolve up to retries + 1 times.                 *)
(***************************************************************************)
EXTENDS Integers, Sequences, FiniteSets, TLC

VARIABLES
    domains,       \* load_list(args.domains)
    resolvers,     \* load_list(args.resolvers)
    types_arg,     \* args.types.split(",")
    quiet,         \* args.quiet
    record_types,  \* main's record_types (after strip().upper())
    pc,            \* control position of the run
    i,             \* resolve_records: enumerate index of the current domain (-1: loop not entered)
    resolver_ip,   \* resolve_records: resolver_ip
    record,        \* resolve_records: record being built
    tix,           \* position in the if-chain: index into Registry of the last `if` passed
    attempt,       \* fetch_dns: attempt
    inflight,      \* resolver.resolve invocations that have been sent and not yet returned
    log,           \* resolver.resolve invocations completed by the current fetch_dns call
    yielded,       \* records the generator has yielded so far
    printed        \* records print_results has printed so far

vars == << domains, resolvers, types_arg, quiet, record_types, pc, i, resolver_ip,
           record, tix, attempt, inflight, log, yielded, printed >>

----------------------------------------------------------------------------
(* Bounds of the model and the universes the inputs are drawn from.        *)

MaxDomains == 2
MaxResolvers == 2
MaxTypes == 2

DomainNames == <<"d1.example", "d2.example">>
ResolverAddrs == <<"10.0.0.1", "10.0.0.2">>
TypeArgs == {"A", "mx", "FOO"}

SeqsUpTo(S, lo, hi) == UNION {[1..n -> S] : n \in lo..hi}

Range(s) == {s[k] : k \in 1..Len(s)}

\* The program compares domains and addresses only for equality and never
\* looks into them, so a list is drawn up to renaming: a name occurs in it only
\* after the names before it in `names` have occurred.  Repetitions stay.
InOrderOfFirstUse(s, names) ==
    \A k \in 1..Len(s) : \A n \in 2..Len(names) :
        s[k] = names[n] => \E j \in 1..(k - 1) : s[j] = names[n - 1]

ListsUpTo(names, lo, hi) ==
    {s \in SeqsUpTo(Range(names), lo, hi) : InOrderOfFirstUse(s, names)}

----------------------------------------------------------------------------
(* Program constants and pure helpers.                                     *)

\* fetch_dns(..., retries=2)
retries_off_by_one == 2 + 1
retries == 2

\* str.upper() on the identifiers of TypeArgs.
Upper(s) == CASE s = "mx" -> "MX"
              [] s = "a" -> "A"
              [] OTHER -> s

\* main: [rtype.strip().upper() for rtype in args.types.split(",")]
NormalizeTypes(raw) == [k \in 1..Len(raw) |-> Upper(raw[k])]

\* The if-chain of resolve_records, in source order.  Each entry is the key
\* tested and stored; the fetch_<type> wrapper passes the same identifier
\* to fetch_dns.
Registry == << "A", "AAAA", "AFSDB", "APL", "CAA", "CDNSKEY", "CDS", "CERT",
               "CNAME", "DHCID", "DLV", "DNAME", "DNSKEY", "DS", "HIP",
               "IPSECKEY", "KEY", "KX", "LOC", "MX", "NAPTR", "NS", "NSEC",
               "NSEC3", "NSEC3PARAM", "PTR", "RP", "RRSIG", "SIG", "SOA",
               "SRV", "SSHFP", "TLSA", "TSIG", "TXT", "URI", "ZONEMD" >>

\* Index of the first `if` after position k whose test succeeds; 0 if the
\* chain runs to the yield.
NextType(k, rtypes) ==
    LET hits == {j \in (k+1)..Len(Registry) : Registry[j] \in Range(rtypes)}
    IN IF hits = {} THEN 0
       ELSE CHOOSE j \in hits : \A h \in hits : j <= h

\* resolvers[i % len(resolvers)]  (0-based i, 1-based sequence)
PinnedWrong(idx, pool) == pool[1]
Pinned(idx, pool) == pool[(idx % Len(pool)) + 1]

\* main: `if not args.quiet: print_results(results, record_types)`
ConsumesAlways(q) == TRUE
Consumes(q) == ~q

\* Outcomes of one resolver.resolve(domain, rdtype, raise_on_no_answer=False,
\* lifetime=5.0) invocation:
\*   "Answer"   - returns an answer whose rrset is non-empty
\*   "NoAnswer" - returns an answer with rrset None (name exists, no such records)
\*   "NXDOMAIN" - raises dns.resolver.NXDOMAIN
\*   "Timeout"  - raises a timeout / transport error (LifetimeTimeout, NoNameservers)
Outcomes == {"Answer", "NoAnswer", "NXDOMAIN", "Timeout"}
Raises(o) == o \in {"NXDOMAIN", "Timeout"}

\* `except Exception` catches every exception resolve raises.
CaughtTimeoutOnly(o) == o = "Timeout"
Caught(o) == TRUE

\* [r.to_text() for r in answers]: the answer texts served by the queried nameserver.
ToText(q) == << <<q.domain, q.rdtype, q.nameserver>> >>

\* fetch_dns line 44: `[r.to_text() for r in answers] if answers.rrset else []`
ReturnValue(q, o) == IF o = "Answer" THEN ToText(q) ELSE <<>>

\* fetch_dns line 47: `return []` after the last attempt raised.
ExhaustedValue == <<>>

\* The dict `record`: the fixed keys and the per-type entries rr.
NoRecord == [domain |-> "", resolver |-> "", rr |-> <<>>]
NewRecord(d, r) == [domain |-> d, resolver |-> r, rr |-> <<>>]
SetKey(rec, key, val) ==
    [rec EXCEPT !.rr = [t \in (DOMAIN rec.rr) \cup {key} |->
                           IF t = key THEN val ELSE rec.rr[t]]]

----------------------------------------------------------------------------
Init ==
    /\ domains \in ListsUpTo(DomainNames, 0, MaxDomains)
    /\ resolvers \in ListsUpTo(ResolverAddrs, 0, MaxResolvers)
    /\ types_arg \in SeqsUpTo(TypeArgs, 1, MaxTypes)
    /\ quiet \in BOOLEAN
    /\ record_types = <<>>
    /\ pc = "main"
    /\ i = -1
    /\ resolver_ip = ""
    /\ record = NoRecord
    /\ tix = 0
    /\ attempt = 0
    /\ inflight = {}
    /\ log = <<>>
    /\ yielded = <<>>
    /\ printed = <<>>

\* main(): normalise the types, create the generator (no code of it runs yet)
\* and, unless quiet, enter print_results, which asks for the first record.
Main ==
    /\ pc = "main"
    /\ record_types' = NormalizeTypes(types_arg)
    /\ pc' = IF Consumes(quiet) THEN "next" ELSE "exit"
    /\ UNCHANGED << domains, resolvers, types_arg, quiet, i, resolver_ip, record,
                    tix, attempt, inflight, log, yielded, printed >>

\* `for i, domain in enumerate(domains)`: next item, or StopIteration, which
\* ends print_results' loop and main.  resolvers[i % len(resolvers)] raises
\* ZeroDivisionError on an empty pool, which nothing catches.
LoopNext ==
    /\ pc = "next"
    /\ IF i + 1 >= Len(domains)
       THEN /\ pc' = "exit"
            /\ UNCHANGED << i, resolver_ip, record, tix >>
       ELSE /\ i' = i + 1
            /\ IF Len(resolvers) = 0
               THEN /\ pc' = "crashed"
                    /\ UNCHANGED << resolver_ip, record, tix >>
               ELSE /\ resolver_ip' = Pinned(i + 1, resolvers)
                    /\ record' = NewRecord(domains[i + 2], Pinned(i + 1, resolvers))
                    /\ tix' = 0
                    /\ pc' = "chain"
    /\ UNCHANGED << domains, resolvers, types_arg, quiet, record_types, attempt,
                    inflight, log, yielded, printed >>

\* The next `if <TYPE> in record_types` that holds: call fetch_<type>, i.e.
\* enter fetch_dns with attempt = 0.
CallFetch ==
    /\ pc = "chain"
    /\ NextType(tix, record_types) # 0
    /\ tix' = NextType(tix, record_types)
    /\ attempt' = 0
    /\ log' = <<>>
    /\ pc' = "resolve"
    /\ UNCHANGED << domains, resolvers, types_arg, quiet, record_types, i,
                    resolver_ip, record, inflight, yielded, printed >>

\* No further `if` holds: `yield record` hands the record to print_results.
Yield ==
    /\ pc = "chain"
    /\ NextType(tix, record_types) = 0
    /\ yielded' = Append(yielded, record)
    /\ log' = <<>>
    /\ pc' = "yielded"
    /\ UNCHANGED << domains, resolvers, types_arg, quiet, record_types, i,
                    resolver_ip, record, tix, attempt, inflight, printed >>

\* fetch_dns loop body: a fresh Resolver with nameservers = [resolver_ip]
\* sends the query.
Send ==
    /\ pc = "resolve"
    /\ attempt < retries + 1
    /\ inflight' = inflight \cup {[domain |-> record.domain, rdtype |-> Registry[tix],
                                   nameserver |-> resolver_ip]}
    /\ pc' = "inflight"
    /\ UNCHANGED << domains, resolvers, types_arg, quiet, record_types, i,
                    resolver_ip, record, tix, attempt, log, yielded, printed >>

\* resolver.resolve returns or raises; fetch_dns returns a list (stored under
\* the type's key; its frame, and with it attempt, is gone) or goes round the
\* loop again.
Receive(q, o) ==
    /\ pc = "inflight"
    /\ q \in inflight
    /\ inflight' = inflight \ {q}
    /\ log' = Append(log, [nameserver |-> q.nameserver, attempt |-> attempt, outcome |-> o])
    /\ IF ~Raises(o)
       THEN /\ record' = SetKey(record, Registry[tix], ReturnValue(q, o))
            /\ pc' = "chain"
            /\ attempt' = 0
       ELSE IF ~Caught(o)
       THEN /\ pc' = "crashed"
            /\ UNCHANGED << record, attempt >>
       ELSE IF attempt = retries
       THEN /\ record' = SetKey(record, Registry[tix], ExhaustedValue)
            /\ pc' = "chain"
            /\ attempt' = 0
       ELSE /\ attempt' = attempt + 1
            /\ pc' = "resolve"
            /\ UNCHANGED record
    /\ UNCHANGED << domains, resolvers, types_arg, quiet, record_types, i,
                    resolver_ip, tix, yielded, printed >>

\* print_results loop body: print the record just yielded, then ask the
\* generator for the next one.
PrintResults ==
    /\ pc = "yielded"
    /\ printed' = Append(printed, yielded[Len(yielded)])
    /\ pc' = "next"
    /\ UNCHANGED << domains, resolvers, types_arg, quiet, record_types, i,
                    resolver_ip, record, tix, attempt, inflight, log, yielded >>

Next ==
    \/ Main
    \/ LoopNext
    \/ CallFetch
    \/ Yield
    \/ Send
    \/ \E q \in inflight, o \in Outcomes : Receive(q, o)
    \/ PrintResults

Spec == Init /\ [][Next]_vars

----------------------------------------------------------------------------
(* Vocabulary of the properties.                                           *)

\* The attempt budget the documentation gives fetch_dns: retries + 1 = 3.
AttemptBudget == 3

\* The key of the if-statement the chain is at.
CurrentKey == Registry[tix]

\* fetch_dns has returned for the current unit of work (domain, CurrentKey).
UnitDone == pc = "chain" /\ log # <<>>

\* Every completed call of the current unit ended with outcome o.
AllCalls(o) == \A k \in 1..Len(log) : log[k].outcome = o

\* The requested list holds an identifier the if-chain does not know.
HasUnknownType == \E k \in 1..Len(types_arg) : Upper(types_arg[k]) \notin Range(Registry)

\* The domains of a list in order of first appearance, duplicates collapsed.
RECURSIVE Dedup(_)
Dedup(s) ==
    IF s = <<>> THEN <<>>
    ELSE LET front == Dedup(SubSeq(s, 1, Len(s) - 1))
             last == s[Len(s)]
         IN IF last \in Range(front) THEN front ELSE Append(front, last)

DomainsOf(recs) == [k \in 1..Len(recs) |-> recs[k].domain]

\* The generator was drained to its end by print_results.
RunComplete == pc = "exit" /\ ~quiet

----------------------------------------------------------------------------
(* C1: a unit whose first resolver.resolve call ends in NXDOMAIN makes    *)
(* exactly one call and returns at once; no second attempt is made.        *)
C1_NegativeShortCircuit ==
    (log # <<>> /\ log[1].outcome = "NXDOMAIN")
        => (Len(log) = 1 /\ inflight = {} /\ pc = "chain")

(* C2: with two resolvers, the first always failing transiently and the    *)
(* second answering, the unit of the first domain moves to the second      *)
(* resolver after the first failure and returns its answer after exactly   *)
(* two calls.                                                              *)
C2_Scenario ==
    /\ Len(resolvers) = 2
    /\ resolvers[1] # resolvers[2]
    /\ i = 0
    /\ \A k \in 1..Len(log) :
          /\ log[k].nameserver = resolvers[1] => log[k].outcome = "Timeout"
          /\ log[k].nameserver = resolvers[2] => log[k].outcome = "Answer"

C2_RotationOnTransient ==
    (C2_Scenario /\ UnitDone)
        => /\ Len(log) = 2
           /\ log[2].nameserver = resolvers[2]
           /\ record.rr[CurrentKey] =
                 ToText([domain |-> record.domain, rdtype |-> CurrentKey,
                         nameserver |-> resolvers[2]])

(* C3: a unit whose every call timed out until the budget was used up      *)
(* leaves in the record a failure marker, different from what an answer    *)
(* with no records and a negative answer leave there (an empty list).      *)
C3_ExhaustionIsMarked ==
    (UnitDone /\ Len(log) = AttemptBudget /\ AllCalls("Timeout"))
        => record.rr[CurrentKey] #
              ReturnValue([domain |-> record.domain, rdtype |-> CurrentKey,
                           nameserver |-> resolver_ip], "NoAnswer")

(* C4: a unit never makes more than AttemptBudget resolver.resolve calls;  *)
(* a unit that only ever times out keeps calling until it has made exactly *)
(* that many and then returns with an entry in the record; and no call     *)
(* follows a call that succeeded.                                          *)
C4_RetryBudget ==
    /\ Len(log) + Cardinality(inflight) <= AttemptBudget
    /\ pc \in {"resolve", "inflight"} => \A k \in 1..Len(log) : Raises(log[k].outcome)
    /\ (log # <<>> /\ ~Raises(log[Len(log)].outcome))
          => (pc = "chain" /\ CurrentKey \in DOMAIN record.rr)
    /\ (log # <<>> /\ AllCalls("Timeout"))
          => IF Len(log) = AttemptBudget
             THEN pc = "chain" /\ CurrentKey \in DOMAIN record.rr
             ELSE pc \in {"resolve", "inflight"}

C4_Witness ==
    UnitDone /\ Len(log) = AttemptBudget /\ AllCalls("Timeout")

(* C5: the drained output holds each distinct input domain exactly once,   *)
(* in order of first appearance.                                           *)
C5_DistinctDomains ==
    (RunComplete /\ Len(resolvers) > 0) => DomainsOf(yielded) = Dedup(domains)

(* C6: the record-type keys of every yielded record are exactly the        *)
(* requested record types.                                                 *)
C6_KeysAreRequested ==
    \A k \in 1..Len(yielded) : DOMAIN yielded[k].rr = Range(record_types)

(* C7: when the requested list holds an unknown identifier, no query is    *)
(* ever issued in the run.                                                 *)
C7_UnknownTypeNoQuery ==
    HasUnknownType => (inflight = {} /\ log = <<>>)

(* C8: with a non-empty pool no failure aborts or blocks the run: it never *)
(* crashes, it can always take its next step until main returns, and the   *)
(* drained output holds one record per input domain, in input order.       *)
C8_FailureIsolation ==
    Len(resolvers) > 0 =>
        /\ pc # "crashed"
        /\ pc # "exit" => ENABLED Next
        /\ RunComplete => (DomainsOf(yielded) = domains /\ printed = yielded)

C8_Witness ==
    /\ RunComplete
    /\ Len(domains) = MaxDomains
    /\ Len(yielded) = Len(domains)
    /\ \A k \in 1..Len(yielded) :
          /\ DOMAIN yielded[k].rr # {}
          /\ \A t \in DOMAIN yielded[k].rr : yielded[k].rr[t] = ExhaustedValue

(* C9: every call made for the domain at position i goes to                *)
(* resolvers[i mod n], for every type and attempt, that is the record's    *)
(* resolver field, and every answer in a record came from that resolver.   *)
C9_PerDomainPinning ==
    Len(resolvers) > 0 =>
        LET home(idx) == resolvers[(idx % Len(resolvers)) + 1]
        IN /\ \A q \in inflight : q.nameserver = home(i) /\ q.domain = domains[i + 1]
           /\ \A k \in 1..Len(log) : log[k].nameserver = home(i)
           /\ pc \in {"chain", "resolve", "inflight"} => record.resolver = home(i)
           /\ \A k \in 1..Len(yielded) :
                 /\ yielded[k].resolver = home(k - 1)
                 /\ \A t \in DOMAIN yielded[k].rr :
                       \A a \in Range(yielded[k].rr[t]) : a[3] = home(k - 1)

C9_Witness ==
    /\ Len(resolvers) = 2
    /\ resolvers[1] # resolvers[2]
    /\ i = 1
    /\ Len(log) = 2
    /\ inflight # {}
    /\ Len(yielded) = 1
    /\ \E t \in DOMAIN yielded[1].rr : yielded[1].rr[t] # <<>>

====
